---------------------------- MODULE Spec2Model ----------------------------
(***************************************************************************)
(* State-machine model of SecureCSPGenerator (csp-generator.ts, the        *)
(* cheerio-based core engine): construction, fetchHtml, parse with its     *)
(* resolveAndAdd calls, the DNS lookups they leave in flight, and the      *)
(* assembly of the header in generate().                                   *)
(*                                                                         *)
(* Text is modelled structurally.  A raw attribute value is a record that  *)
(* says what the string looks like (surrounding whitespace, a leading      *)
(* quote, scheme, host, port); a host is a list of labels, four octets or  *)
(* eight 16-bit groups; an address is rendered to the lexemes of its       *)
(* canonical text before isPrivateIp's patterns are applied to it; tokens  *)
(* of the directive store and the header are strings.                      *)
(***************************************************************************)
EXTENDS Integers, Sequences, FiniteSets, TLC

VARIABLES
    input,      \* the constructor's arguments: [url, opts]
    srv,        \* what the network will do: the response, its body, the page
    phase,      \* where the generate() call is
    hist,       \* the phases visited so far, in order
    err,        \* the error the constructor threw or generate() rejected with
    timer,      \* "unset" | "armed" | "cleared" | "fired"
    fstate,     \* fetchHtml: "idle" | "headers" | "body" | "done"
    received,   \* number of body characters the transport has delivered
    html,       \* this.html
    sources,    \* this.sources: Map<DirectiveName, Set<string>>, in insertion order
    flags,      \* detectedInlineScript / detectedInlineStyle / detectedEval
    calls,      \* the resolveAndAdd calls parse() made, each with its state
    css,        \* lastIndex of cssUrlRe and cssImportRe; the extractCssUrls calls
    warned,     \* logger.warn / logger.debug calls made
    returned,   \* the store as it was when the header was built
    header      \* the string generate() resolved with

vars == <<input, srv, phase, hist, err, timer, fstate, received, html,
          sources, flags, calls, css, warned, returned, header>>

None == "<none>"

---------------------------------------------------------------------------
(* Bounds of the model *)

\* longest page, in elements
MaxElems == 2
\* longest response body, in characters
MaxBodyChars == 2
\* largest maxBodySize option tried
MaxLimit == 2

---------------------------------------------------------------------------
(* Hosts, addresses and their text *)

NameHost(labels) == [kind |-> "name", labels |-> labels, nums |-> <<>>]
V4(a, b, c, d) == [kind |-> "v4", labels |-> <<>>, nums |-> <<a, b, c, d>>]
V6(g) == [kind |-> "v6", labels |-> <<>>, nums |-> g]
NoHost == [kind |-> "none", labels |-> <<>>, nums |-> <<>>]

HexDigit(d) ==
    CASE d = 10 -> "a" [] d = 11 -> "b" [] d = 12 -> "c"
      [] d = 13 -> "d" [] d = 14 -> "e" [] d = 15 -> "f"
      [] OTHER -> ToString(d)

RECURSIVE Hex(_)
Hex(n) == IF n < 16 THEN HexDigit(n) ELSE Hex(n \div 16) \o HexDigit(n % 16)

RECURSIVE ZeroRunLen(_, _)
ZeroRunLen(g, i) ==
    IF i > Len(g) \/ g[i] # 0 THEN 0 ELSE 1 + ZeroRunLen(g, i + 1)

\* where the canonical text of an IPv6 address puts "::": the first longest
\* run of two or more zero groups (0 when there is none)
BestRun(g) ==
    LET best == CHOOSE n \in 0..Len(g) :
                    /\ \E i \in 1..Len(g) : ZeroRunLen(g, i) = n
                    /\ \A i \in 1..Len(g) : ZeroRunLen(g, i) <= n
    IN IF best < 2 THEN 0
       ELSE CHOOSE i \in 1..Len(g) :
                /\ ZeroRunLen(g, i) = best
                /\ \A j \in 1..(i - 1) : ZeroRunLen(g, j) < best

RECURSIVE GroupsLex(_, _, _)
GroupsLex(g, from, to) ==
    IF from > to THEN <<>>
    ELSE IF from = to THEN <<Hex(g[from])>>
    ELSE <<Hex(g[from]), ":">> \o GroupsLex(g, from + 1, to)

\* the lexemes of an address as dns.lookup and the URL parser print it
AddrLex(a) ==
    IF a.kind = "v4"
    THEN <<ToString(a.nums[1]), ".", ToString(a.nums[2]), ".",
           ToString(a.nums[3]), ".", ToString(a.nums[4])>>
    ELSE LET s == BestRun(a.nums)
         IN IF s = 0 THEN GroupsLex(a.nums, 1, 8)
            ELSE GroupsLex(a.nums, 1, s - 1) \o <<":", ":">>
                 \o GroupsLex(a.nums, s + ZeroRunLen(a.nums, s), 8)

RECURSIVE Concat(_)
Concat(lex) == IF lex = <<>> THEN "" ELSE Head(lex) \o Concat(Tail(lex))

RECURSIVE JoinWith(_, _)
JoinWith(parts, sep) ==
    IF parts = <<>> THEN ""
    ELSE IF Len(parts) = 1 THEN parts[1]
    ELSE parts[1] \o sep \o JoinWith(Tail(parts), sep)

\* URL.hostname: an IPv6 literal keeps its brackets
HostText(h) ==
    CASE h.kind = "name" -> JoinWith(h.labels, ".")
      [] h.kind = "v4" -> Concat(AddrLex(h))
      [] h.kind = "v6" -> "[" \o Concat(AddrLex(h)) \o "]"
      [] OTHER -> ""

\* net.isIP applied to URL.hostname: the bracketed form of an IPv6 literal
\* is not an IP address for it
isIP(h) == h.kind = "v4"

---------------------------------------------------------------------------
(* Raw strings and URLs *)

\* A string as the code sees it: ws says whether whitespace surrounds it;
\* kind says how it reads once trimmed:
\*   "empty"   the empty string
\*   "quoted"  begins with a single quote (text is the trimmed string)
\*   "eqquote" ends with =' without beginning with a quote
\*   "abs"     scheme://host[:port]/path
\*   "opaque"  scheme:data with no authority (data:, javascript:)
\*   "path"    a relative reference
\*   "bad"     something no URL parser accepts, with or without a base
Str(ws, kind, text, scheme, host, port) ==
    [ws |-> ws, kind |-> kind, text |-> text, scheme |-> scheme,
     host |-> host, port |-> port]
Abs(scheme, host, port) == Str(FALSE, "abs", "", scheme, host, port)
AbsWs(scheme, host, port) == Str(TRUE, "abs", "", scheme, host, port)
Opaque(scheme) == Str(FALSE, "opaque", "", scheme, NoHost, 0)
Path(text) == Str(FALSE, "path", text, "", NoHost, 0)
Quoted(text) == Str(FALSE, "quoted", text, "", NoHost, 0)
QuotedWs(text) == Str(TRUE, "quoted", text, "", NoHost, 0)
Bad(text) == Str(FALSE, "bad", text, "", NoHost, 0)
Empty == Str(FALSE, "empty", "", "", NoHost, 0)

\* String.prototype.trim
trim(s) == [s EXCEPT !.ws = FALSE]
\* token.startsWith("'")
startsWithQuote(s) == ~s.ws /\ s.kind = "quoted"
\* token.endsWith("='")
endsWithEqQuote(s) == ~s.ws /\ s.kind = "eqquote"

Invalid == [scheme |-> "invalid", host |-> NoHost, port |-> 0]
Url(scheme, host, port) == [scheme |-> scheme, host |-> host, port |-> port]

SpecialSchemes == {"http", "https", "ws", "wss", "ftp"}
DefaultPort(scheme) ==
    CASE scheme \in {"http", "ws"} -> 80
      [] scheme \in {"https", "wss"} -> 443
      [] scheme = "ftp" -> 21
      [] OTHER -> 0

\* new URL(s): an absolute URL only; the default port is dropped
ParseAbsolute(s) ==
    CASE s.kind = "abs" /\ s.host # NoHost ->
             Url(s.scheme, s.host,
                 IF s.port = DefaultPort(s.scheme) THEN 0 ELSE s.port)
      [] s.kind = "opaque" -> Url(s.scheme, NoHost, 0)
      [] OTHER -> Invalid

\* new URL(s, base): anything that is not absolute resolves against the base
\* and keeps the base's scheme, host and port
ParseUrl(s, base) ==
    CASE s.kind \in {"abs", "opaque"} -> ParseAbsolute(s)
      [] s.kind = "bad" -> Invalid
      [] OTHER -> base

\* URL.origin
Origin(u) ==
    IF u.scheme \in SpecialSchemes
    THEN u.scheme \o "://" \o HostText(u.host)
         \o (IF u.port = 0 THEN "" ELSE ":" \o ToString(u.port))
    ELSE "null"

---------------------------------------------------------------------------
(* The SSRF guard *)

\* isPrivateIp, on the lexemes of the address text:
\*   /^10\./  /^192\.168\./  /^172\.(1[6-9]|2\d|3[0-1])\./  /^127\./
\*   ip === '::1'   ip.startsWith('fe80:')
isPrivateIp(ip) ==
    LET at(i) == IF i <= Len(ip) THEN ip[i] ELSE "" IN
    \/ at(1) = "10" /\ at(2) = "."
    \/ at(1) = "192" /\ at(2) = "." /\ at(3) = "168" /\ at(4) = "."
    \/ /\ at(1) = "172" /\ at(2) = "."
       /\ at(3) \in {"16", "17", "18", "19"}
                    \cup {"2" \o ToString(d) : d \in 0..9} \cup {"30", "31"}
       /\ at(4) = "."
    \/ at(1) = "127" /\ at(2) = "."
    \/ ip = <<":", ":", "1">>
    \/ at(1) = "fe80" /\ at(2) = ":"

\* host === 'localhost' || host.endsWith('.local')
blockedByName(h) ==
    /\ h.kind = "name"
    /\ \/ h.labels = <<"localhost">>
       \/ Len(h.labels) >= 2 /\ h.labels[Len(h.labels)] = "local"

\* (await dns.lookup(host, {all: true})).some((r) => isPrivateIp(r.address))
anyPrivate(addrs) == \E i \in 1..Len(addrs) : isPrivateIp(AddrLex(addrs[i]))

\* absolute.protocol !== 'https:' is let through only with allowHttp
schemeAllowed(opts, absolute) == opts.allowHttp \/ absolute.scheme = "https"

\* The resolver: what dns.lookup(host, {all: true}) answers for each host
\* name of the model.  ok = FALSE is a rejected lookup.  The empty host name
\* (an opaque URL) is answered with no address; the bracketed text of an IPv6
\* literal is not a name getaddrinfo resolves.
Answer(addrs) == [ok |-> TRUE, addrs |-> addrs]
LookupFails == [ok |-> FALSE, addrs |-> <<>>]
Public4 == V4(8, 8, 8, 8)
dnsLookup(h) ==
    CASE h = NoHost -> Answer(<<>>)
      [] h.kind = "v6" -> LookupFails
      [] h.kind = "v4" -> Answer(<<h>>)
      [] h.labels = <<"rebind", "example", "com">> ->
             Answer(<<Public4, V4(10, 0, 0, 5)>>)
      [] h.labels = <<"intra", "example", "com">> ->
             Answer(<<V4(192, 168, 1, 1)>>)
      [] h.labels = <<"ll", "example", "com">> ->
             Answer(<<V6(<<65215, 0, 0, 0, 0, 0, 0, 1>>)>>)
      [] h.labels = <<"flaky", "example", "com">> -> LookupFails
      [] h.labels = <<"localhost">> -> Answer(<<V4(127, 0, 0, 1)>>)
      [] OTHER -> Answer(<<Public4>>)

---------------------------------------------------------------------------
(* The directive store: a Map of Sets, both in insertion order *)

Range(seq) == {seq[i] : i \in 1..Len(seq)}
Has(src, dir) == \E i \in 1..Len(src) : src[i].dir = dir
Index(src, dir) == CHOOSE i \in 1..Len(src) : src[i].dir = dir
Get(src, dir) == IF Has(src, dir) THEN src[Index(src, dir)].vals ELSE <<>>

\* new Set(list): duplicates of a list are dropped, first occurrence kept
RECURSIVE ToSet(_)
ToSet(list) ==
    IF list = <<>> THEN <<>>
    ELSE LET init == ToSet(SubSeq(list, 1, Len(list) - 1))
             last == list[Len(list)]
         IN IF last \in Range(init) THEN init ELSE Append(init, last)

\* Map.prototype.set
mapSet(src, dir, vals) ==
    IF Has(src, dir)
    THEN [src EXCEPT ![Index(src, dir)].vals = vals]
    ELSE Append(src, [dir |-> dir, vals |-> vals])

ensureSet(src, dir) == IF Has(src, dir) THEN src ELSE mapSet(src, dir, <<>>)

\* ensureSet(dir).add(tok)
addTo(src, dir, tok) ==
    LET s == ensureSet(src, dir)
        i == Index(s, dir)
    IN IF tok \in Range(s[i].vals) THEN s
       ELSE [s EXCEPT ![i].vals = Append(@, tok)]

---------------------------------------------------------------------------
(* Options *)

\* an option that was not passed takes the default of the destructuring
\* in the constructor
opt(opts, name, dflt) == IF name \in DOMAIN opts THEN opts[name] ELSE dflt

\* generateNonce(): 16 random bytes in base64
generateNonce == "cmFuZG9tMTZieXRlcw=="

\* this.opts, and this.nonce, as the constructor leaves them
normalise(opts) ==
    [allowHttp |-> opt(opts, "allowHttp", FALSE),
     allowPrivateOrigins |-> opt(opts, "allowPrivateOrigins", FALSE),
     allowUnsafeInlineScript |-> opt(opts, "allowUnsafeInlineScript", FALSE),
     allowUnsafeInlineStyle |-> opt(opts, "allowUnsafeInlineStyle", FALSE),
     allowUnsafeEval |-> opt(opts, "allowUnsafeEval", FALSE),
     presets |-> opt(opts, "presets", <<>>),
     maxBodySize |-> opt(opts, "maxBodySize", 0),
     requireTrustedTypes |-> opt(opts, "requireTrustedTypes", FALSE),
     nonce |-> IF opt(opts, "customNonce", "") # ""
               THEN opt(opts, "customNonce", "")
               ELSE IF opt(opts, "useNonce", TRUE) THEN generateNonce ELSE ""]

\* the two seeded directives, then every preset entry set over them
RECURSIVE mergePresets(_, _)
mergePresets(src, presets) ==
    IF presets = <<>> THEN src
    ELSE mergePresets(mapSet(src, presets[1].dir, ToSet(presets[1].list)),
                      Tail(presets))

initialSources(presets) ==
    mergePresets(<<[dir |-> "default-src", vals |-> <<"'self'">>],
                   [dir |-> "object-src", vals |-> <<"'none'">>]>>, presets)

\* the constructor without its scheme check
ctorErrorNoSchemeCheck(inputUrl, opts) ==
    IF inputUrl.kind = "empty" THEN "URL must not be empty"
    ELSE IF ParseAbsolute(inputUrl) = Invalid THEN "Invalid URL"
    ELSE None

\* what the constructor throws for (inputUrl, opts); None when it returns
ctorError(inputUrl, opts) ==
    IF inputUrl.kind = "empty" THEN "URL must not be empty"
    ELSE IF ParseAbsolute(inputUrl) = Invalid THEN "Invalid URL"
    ELSE IF ~opt(opts, "allowHttp", FALSE)
            /\ ParseAbsolute(inputUrl).scheme # "https"
    THEN "Insecure scheme rejected"
    ELSE None

---------------------------------------------------------------------------
(* Directive names, and presets given as text *)

\* types.ts, DirectiveName: the names a preset or the store may carry
DirectiveNames ==
    {"default-src", "script-src", "style-src", "img-src", "font-src",
     "connect-src", "frame-src", "object-src", "base-uri", "form-action",
     "frame-ancestors", "media-src", "worker-src", "manifest-src",
     "report-uri", "report-to", "upgrade-insecure-requests",
     "block-all-mixed-content", "require-trusted-types-for", "sandbox"}

\* constants.ts, VALID_CSP_DIRECTIVES: the list the CLI checks names against
VALID_CSP_DIRECTIVES ==
    {"default-src", "script-src", "style-src", "img-src", "font-src",
     "connect-src", "frame-src", "object-src", "base-uri", "form-action",
     "frame-ancestors", "media-src", "worker-src", "manifest-src",
     "report-uri", "report-to", "upgrade-insecure-requests",
     "block-all-mixed-content", "require-trusted-types-for"}

\* A preset string is the list of its ';'-separated segments.  A segment is
\* the text before its first colon (name, and whether whitespace surrounds
\* it) and the pieces its later colons cut the rest into; a piece is the list
\* of its ','-separated values, a value its text and whether whitespace
\* surrounds it.  A segment without a colon has no piece.
Val(ws, text) == [ws |-> ws, text |-> text]
Seg(ws, name, pieces) == [ws |-> ws, name |-> name, pieces |-> pieces]

\* s.split(',').map((v) => v.trim())
splitTrim(piece) == [i \in 1..Len(piece) |-> piece[i].text]

\* a string is falsy when it is empty
emptyText(ws, text) == ~ws /\ text = ""
emptyPiece(piece) == Len(piece) = 1 /\ emptyText(piece[1].ws, piece[1].text)

\* presets[name] = list, on an object: a key keeps the place of its first
\* assignment
objSet(obj, name, list) ==
    IF \E i \in 1..Len(obj) : obj[i].dir = name
    THEN [i \in 1..Len(obj) |->
             IF obj[i].dir = name THEN [dir |-> name, list |-> list] ELSE obj[i]]
    ELSE Append(obj, [dir |-> name, list |-> list])

\* cli.ts, parsePresets: `const [directive, values] = preset.split(':')`
\* keeps the text before the first colon and the text between the first and
\* the second; the trimmed name must be one of VALID_CSP_DIRECTIVES
RECURSIVE parsePresetsFrom(_, _)
parsePresetsFrom(presets, value) ==
    IF value = <<>> THEN presets
    ELSE LET seg == value[1]
             accepted ==
                 /\ ~emptyText(seg.ws, seg.name)
                 /\ Len(seg.pieces) >= 1
                 /\ ~emptyPiece(seg.pieces[1])
                 /\ seg.name \in VALID_CSP_DIRECTIVES
         IN parsePresetsFrom(
                IF accepted
                THEN objSet(presets, seg.name, splitTrim(seg.pieces[1]))
                ELSE presets,
                Tail(value))

parsePresets(value) == parsePresetsFrom(<<>>, value)

\* the text after the first colon, cut at its commas: a colon inside it
\* joins the last value of one piece to the first of the next
RECURSIVE afterFirstColon(_)
afterFirstColon(pieces) ==
    IF Len(pieces) = 1 THEN splitTrim(pieces[1])
    ELSE LET a == splitTrim(pieces[1])
             b == afterFirstColon(Tail(pieces))
         IN SubSeq(a, 1, Len(a) - 1) \o <<a[Len(a)] \o ":" \o b[1]>> \o Tail(b)

\* csp-generator.js, parsePresets: the name is the trimmed text before the
\* first colon, whatever it is; a segment without a colon is skipped
RECURSIVE launcherParsePresetsFrom(_, _)
launcherParsePresetsFrom(presets, directives) ==
    IF directives = <<>> THEN presets
    ELSE LET seg == directives[1]
         IN launcherParsePresetsFrom(
                IF seg.pieces = <<>> THEN presets
                ELSE objSet(presets, seg.name, afterFirstColon(seg.pieces)),
                Tail(directives))

launcherParsePresets(presetsEnv) == launcherParsePresetsFrom(<<>>, presetsEnv)

\* cli.ts, getOptions: format || process.env.CSP_OUTPUT_FORMAT || 'header',
\* where an option or variable that is not given, or is empty, is falsy ("")
getOutputFormat(format, env) ==
    IF format # "" THEN format ELSE IF env # "" THEN env ELSE "header"

---------------------------------------------------------------------------
(* The page *)

NoAttr == Str(FALSE, "absent", "", "", NoHost, 0)

\* an element: its tag, its rel attribute, the value of its src or href
\* attribute (NoAttr when it has none), nonce and integrity attributes
\* ("" when absent), its text and its style attribute ("" when absent)
El(tag, rel, url, nonce, integrity, text, style) ==
    [tag |-> tag, rel |-> rel, url |-> url, nonce |-> nonce,
     integrity |-> integrity, text |-> text, style |-> style]
Ext(tag, url) == El(tag, "", url, "", "", "", "")
Stylesheet(url) == El("link", "stylesheet", url, "", "", "", "")
InlineScript(nonce, integrity, text) ==
    El("script", "", NoAttr, nonce, integrity, text, "")

\* the selectors of parse(), in the order of the loop: tag, rel, directive
selectors ==
    <<[tag |-> "script", rel |-> "", dir |-> "script-src"],
      [tag |-> "link", rel |-> "stylesheet", dir |-> "style-src"],
      [tag |-> "img", rel |-> "", dir |-> "img-src"],
      [tag |-> "audio", rel |-> "", dir |-> "media-src"],
      [tag |-> "video", rel |-> "", dir |-> "media-src"],
      [tag |-> "track", rel |-> "", dir |-> "media-src"],
      [tag |-> "iframe", rel |-> "", dir |-> "frame-src"]>>

\* $(sel) matches el: the tag, the attribute is there, the rel when one is asked
matches(sel, el) ==
    /\ el.tag = sel.tag
    /\ el.url # NoAttr
    /\ sel.rel # "" => el.rel = sel.rel

\* `if (val)`: the empty string is falsy
truthy(s) == s # NoAttr /\ s.kind # "empty"

\* String.prototype.trim on a script's text: "" and all-whitespace give ""
trimText(text) == IF text = " " THEN "" ELSE text

\* createHash('sha256').update(code).digest('base64'): 32 bytes make 44
\* characters of base64, the last of them one '=' of padding
sha256Base64(code) == "H(" \o code \o ")="

\* the eval heuristic over this.html
evalPattern(text) == text = "eval(x)"

Resolve(dir, raw) == [op |-> "resolve", dir |-> dir, raw |-> raw, tok |-> ""]
Add(dir, tok) == [op |-> "add", dir |-> dir, raw |-> NoAttr, tok |-> tok]

\* the resolveAndAdd calls of one selector, in document order
RECURSIVE selectorOps(_, _)
selectorOps(sel, els) ==
    IF els = <<>> THEN <<>>
    ELSE (IF matches(sel, els[1]) /\ truthy(els[1].url)
          THEN <<Resolve(sel.dir, els[1].url)>> ELSE <<>>)
         \o selectorOps(sel, Tail(els))

RECURSIVE externalOps(_, _)
externalOps(sels, els) ==
    IF sels = <<>> THEN <<>>
    ELSE selectorOps(sels[1], els) \o externalOps(Tail(sels), els)

\* $('base[href]').get(0): the first base element with an href
RECURSIVE firstBase(_)
firstBase(els) ==
    IF els = <<>> THEN NoAttr
    ELSE IF els[1].tag = "base" /\ els[1].url # NoAttr THEN els[1].url
    ELSE firstBase(Tail(els))

baseOps(els) ==
    IF truthy(firstBase(els)) THEN <<Resolve("base-uri", firstBase(els))>>
    ELSE <<Add("base-uri", "'self'")>>

\* a script element counts as inline when attr('src') is falsy
isInlineScript(el) == el.tag = "script" /\ ~truthy(el.url)

\* the inline-script pass emitting the hash beside a nonce or integrity token
RECURSIVE inlineScriptOpsAlsoHash(_)
inlineScriptOpsAlsoHash(els) ==
    IF els = <<>> THEN <<>>
    ELSE (IF isInlineScript(els[1]) /\ trimText(els[1].text) # ""
          THEN (IF els[1].nonce # ""
                THEN <<Resolve("script-src",
                               Quoted("'nonce-" \o els[1].nonce \o "'"))>>
                ELSE IF els[1].integrity # ""
                THEN <<Resolve("script-src",
                               Quoted("'" \o els[1].integrity \o "'"))>>
                ELSE <<>>)
               \o <<Resolve("script-src",
                            Quoted("'sha256-"
                                   \o sha256Base64(trimText(els[1].text))
                                   \o "'"))>>
          ELSE <<>>)
         \o inlineScriptOpsAlsoHash(Tail(els))

RECURSIVE inlineScriptOps(_)
inlineScriptOps(els) ==
    IF els = <<>> THEN <<>>
    ELSE (IF isInlineScript(els[1]) /\ trimText(els[1].text) # ""
          THEN IF els[1].nonce # ""
               THEN <<Resolve("script-src",
                              Quoted("'nonce-" \o els[1].nonce \o "'"))>>
               ELSE IF els[1].integrity # ""
               THEN <<Resolve("script-src",
                              Quoted("'" \o els[1].integrity \o "'"))>>
               ELSE <<Resolve("script-src",
                              Quoted("'sha256-"
                                     \o sha256Base64(trimText(els[1].text))
                                     \o "'"))>>
          ELSE <<>>)
         \o inlineScriptOps(Tail(els))

\* a piece of CSS text that a pattern matches, with the target it captures:
\* "url" is url(...), "import" is @import "...", "importurl" is
\* @import url(...), which both patterns match
CssItem(kind, host, path) ==
    [kind |-> kind, target |-> [Abs("https", host, 0) EXCEPT !.text = path]]

\* the matchable pieces of the CSS texts pages carry, in the order they
\* stand in the text; texts are laid out alike, so that the n-th piece of
\* one ends where the n-th piece of another ends
cssItems(text) ==
    CASE text = "background:url(https://img.example.com/bg.png)" ->
             <<CssItem("url", NameHost(<<"img", "example", "com">>), "/bg.png")>>
      [] text = "background:url(https://pic.example.com/bg.png)" ->
             <<CssItem("url", NameHost(<<"pic", "example", "com">>), "/bg.png")>>
      [] text = "@import url('https://fonts.example.com/font.css'); body{background-image:url('https://images.example.com/bg.png')}" ->
             <<CssItem("importurl", NameHost(<<"fonts", "example", "com">>),
                       "/font.css"),
               CssItem("url", NameHost(<<"images", "example", "com">>),
                       "/bg.png")>>
      [] text = "@import 'https://theme.example.com/main.css';" ->
             <<CssItem("import", NameHost(<<"theme", "example", "com">>),
                       "/main.css")>>
      [] OTHER -> <<>>

\* /\.(png|jpg|jpeg|gif|svg|webp|bmp|ico)$/i
isImagePath(raw) == raw.text \in {"/bg.png"}

\* lastIndex of the two patterns of a new instance
RegexStart == [urlLast |-> 0, importLast |-> 0]

\* exec() of a global pattern, given the kinds of piece it matches (cssUrlRe
\* and the url() pattern of the <style> loop: "url" and "importurl";
\* cssImportRe: "import" and "importurl"): the index of the first match behind
\* lastIndex, which is the new lastIndex; 0 (null, lastIndex reset) if none
exec(items, kinds, lastIndex) ==
    LET hits == {i \in (lastIndex + 1)..Len(items) : items[i].kind \in kinds}
    IN IF hits = {} THEN 0 ELSE CHOOSE i \in hits : \A j \in hits : i <= j

\* extractCssUrls from where it stands to its next await or to its end: the
\* call it makes, the patterns' lastIndex, and the loop it is in
extractStep(task, re) ==
    LET items == cssItems(task.text)
        u == exec(items, {"url", "importurl"}, re.urlLast)
        afterUrls == IF task.loop = "url" THEN [re EXCEPT !.urlLast = 0] ELSE re
        m == exec(items, {"import", "importurl"}, re.importLast)
    IN IF task.loop = "url" /\ u # 0
       THEN [task |-> task, re |-> [re EXCEPT !.urlLast = u],
             ops |-> <<Resolve(task.dir, items[u].target)>>]
       ELSE IF m # 0
       THEN [task |-> [task EXCEPT !.loop = "import"],
             re |-> [afterUrls EXCEPT !.importLast = m],
             ops |-> <<Resolve(task.dir, items[m].target)>>]
       ELSE [task |-> [task EXCEPT !.loop = "done"],
             re |-> [afterUrls EXCEPT !.importLast = 0], ops |-> <<>>]

\* the url() loop of a <style> block, with its own pattern
RECURSIVE blockUrlOps(_)
blockUrlOps(items) ==
    IF items = <<>> THEN <<>>
    ELSE (IF items[1].kind \in {"url", "importurl"}
          THEN <<Resolve("style-src", items[1].target)>>
               \o (IF isImagePath(items[1].target)
                   THEN <<Resolve("img-src", items[1].target)>> ELSE <<>>)
          ELSE <<>>)
         \o blockUrlOps(Tail(items))

\* $('[style]').each or $('style').each: one extractCssUrls call per
\* element, each run up to its first await; n counts the resolveAndAdd calls
RECURSIVE scanStyles(_, _, _)
scanStyles(els, block, st) ==
    IF els = <<>> THEN st
    ELSE LET el == els[1]
             text == IF block THEN el.text ELSE el.style
             found == IF block THEN el.tag = "style" ELSE el.style # ""
             r == extractStep([text |-> text, dir |-> "style-src",
                               loop |-> "url", wait |-> 0], st.re)
             rest == IF block THEN blockUrlOps(cssItems(text)) ELSE <<>>
         IN scanStyles(Tail(els), block,
                IF ~found THEN st
                ELSE [re |-> r.re,
                      tasks |-> Append(st.tasks,
                                   [r.task EXCEPT !.wait = st.n + Len(r.ops)]),
                      ops |-> st.ops \o r.ops \o rest,
                      n |-> st.n + Len(r.ops) + Len(rest)])

\* the inline-style part of parse(): style attributes, then style blocks
styleScan(els, re, n) ==
    scanStyles(els, TRUE,
        scanStyles(els, FALSE, [re |-> re, tasks |-> <<>>, ops |-> <<>>, n |-> n]))

\* everything parse() does to the store, in the order it does it, when the
\* patterns stand at re
parseOpsAt(els, re) ==
    externalOps(selectors, els) \o styleScan(els, re, 0).ops
    \o baseOps(els) \o inlineScriptOps(els)

\* the same for a new instance
parseOps(els) == parseOpsAt(els, RegexStart)

\* the scan flags parse() sets
parseFlags(els) ==
    [inlineScript |-> \E i \in 1..Len(els) : isInlineScript(els[i]),
     inlineStyle |-> \E i \in 1..Len(els) :
                        els[i].tag = "style" \/ els[i].style # "",
     eval |-> \E i \in 1..Len(els) : evalPattern(els[i].text)]

\* the detected* fields are only ever set, never cleared
setFlags(old, found) ==
    [inlineScript |-> old.inlineScript \/ found.inlineScript,
     inlineStyle |-> old.inlineStyle \/ found.inlineStyle,
     eval |-> old.eval \/ found.eval]

---------------------------------------------------------------------------
(* resolveAndAdd *)

Call(dir, raw, state, absolute) ==
    [dir |-> dir, raw |-> raw, state |-> state, url |-> absolute]

\* resolveAndAdd up to its first await.  The state of the call afterwards:
\*   "verbatim"  the token was added as it is
\*   "invalid"   new URL threw; logged at debug level, nothing added
\*   "scheme"    dropped by the scheme check
\*   "name"      dropped: localhost or *.local
\*   "privateip" dropped: a literal address isPrivateIp matches
\*   "added"     the origin was added
\*   "pending"   awaiting dns.lookup
resolveStart(o, base, dir, raw) ==
    LET token == trim(raw)
        absolute == ParseUrl(token, base)
    IN IF startsWithQuote(token) \/ endsWithEqQuote(token)
       THEN Call(dir, raw, "verbatim", Invalid)
       ELSE IF absolute = Invalid THEN Call(dir, raw, "invalid", Invalid)
       ELSE IF ~schemeAllowed(o, absolute) THEN Call(dir, raw, "scheme", absolute)
       ELSE IF o.allowPrivateOrigins THEN Call(dir, raw, "added", absolute)
       ELSE IF blockedByName(absolute.host) THEN Call(dir, raw, "name", absolute)
       ELSE IF isIP(absolute.host)
       THEN IF isPrivateIp(AddrLex(absolute.host))
            THEN Call(dir, raw, "privateip", absolute)
            ELSE Call(dir, raw, "added", absolute)
       ELSE Call(dir, raw, "pending", absolute)

\* the token a call that adds puts into the set of its directive
tokenOf(c) == IF c.state = "verbatim" THEN trim(c.raw).text ELSE Origin(c.url)

\* parse() with a resolveAndAdd that makes the entry of the directive before
\* it decides on the candidate
RECURSIVE runOpsEnsuring(_, _, _, _, _)
runOpsEnsuring(src, done, ops, o, base) ==
    IF ops = <<>> THEN [src |-> src, calls |-> done]
    ELSE LET op == ops[1] IN
         IF op.op = "add"
         THEN runOpsEnsuring(addTo(src, op.dir, op.tok), done, Tail(ops), o, base)
         ELSE LET c == resolveStart(o, base, op.dir, op.raw) IN
              runOpsEnsuring(IF c.state \in {"verbatim", "added"}
                             THEN addTo(src, c.dir, tokenOf(c))
                             ELSE ensureSet(src, c.dir),
                             Append(done, c), Tail(ops), o, base)

\* parse() runs to its end without awaiting anything: every operation is
\* applied in turn, and a call that reaches dns.lookup is left in flight
RECURSIVE runOps(_, _, _, _, _)
runOps(src, done, ops, o, base) ==
    IF ops = <<>> THEN [src |-> src, calls |-> done]
    ELSE LET op == ops[1] IN
         IF op.op = "add"
         THEN runOps(addTo(src, op.dir, op.tok), done, Tail(ops), o, base)
         ELSE LET c == resolveStart(o, base, op.dir, op.raw) IN
              runOps(IF c.state \in {"verbatim", "added"}
                     THEN addTo(src, c.dir, tokenOf(c)) ELSE src,
                     Append(done, c), Tail(ops), o, base)

\* resolveAndAdd after the lookup has answered
resolveFinish(c, addrs) ==
    IF anyPrivate(addrs) THEN [c EXCEPT !.state = "dnsprivate"]
    ELSE [c EXCEPT !.state = "added"]

---------------------------------------------------------------------------
(* fetchHtml *)

\* the characters of a body: ASCII, a two-byte character, a character
\* outside the basic plane (four bytes of UTF-8, two UTF-16 code units)
CharClass == {"A", "L2", "S4"}
Utf8Bytes(c) == CASE c = "A" -> 1 [] c = "L2" -> 2 [] OTHER -> 4
Utf16Units(c) == IF c = "S4" THEN 2 ELSE 1

RECURSIVE byteLength(_)
byteLength(body) ==
    IF body = <<>> THEN 0 ELSE Utf8Bytes(body[1]) + byteLength(Tail(body))

\* String.prototype.length of the decoded text
RECURSIVE stringLength(_)
stringLength(body) ==
    IF body = <<>> THEN 0 ELSE Utf16Units(body[1]) + stringLength(Tail(body))

\* response.ok
responseOk(status) == status >= 200 /\ status <= 299

ContentLength(kind, n) == [kind |-> kind, n |-> n]
\* +response.headers.get('content-length')!: null gives 0, digits their
\* value, anything else NaN
\* `length > maxBodySize` with that number: false for NaN
lengthExceeds(clen, maxBodySize) ==
    CASE clen.kind = "absent" -> 0 > maxBodySize
      [] clen.kind = "num" -> clen.n > maxBodySize
      [] OTHER -> FALSE

\* `maxBodySize && length > maxBodySize`
tooLarge(clen, maxBodySize) == maxBodySize # 0 /\ lengthExceeds(clen, maxBodySize)

\* `maxBodySize && this.html.length > maxBodySize`
exceeded(text, maxBodySize) == maxBodySize # 0 /\ stringLength(text) > maxBodySize

\* /text\/html/i.test(cType), for a header that is present
isHtmlType(ctype) == ctype = "text/html"

---------------------------------------------------------------------------
(* generate(): the assembly *)

\* the nonce and 'strict-dynamic'
addNonce(src, o) ==
    IF o.nonce # ""
    THEN addTo(addTo(src, "script-src", "'nonce-" \o o.nonce \o "'"),
               "script-src", "'strict-dynamic'")
    ELSE src

\* 'unsafe-inline' beside 'strict-dynamic'
addCompat(src) ==
    IF Has(src, "script-src") /\ "'strict-dynamic'" \in Range(Get(src, "script-src"))
    THEN addTo(src, "script-src", "'unsafe-inline'")
    ELSE src

addUnsafe(src, f, o) ==
    LET a == IF f.inlineScript /\ o.allowUnsafeInlineScript
             THEN addTo(src, "script-src", "'unsafe-inline'") ELSE src
        b == IF f.inlineStyle /\ o.allowUnsafeInlineStyle
             THEN addTo(a, "style-src", "'unsafe-inline'") ELSE a
    IN IF o.allowUnsafeEval THEN addTo(b, "script-src", "'unsafe-eval'") ELSE b

\* the Trusted Types step adding 'script' to the entry instead of replacing it
addTrustedTypesMerged(src, o) ==
    IF o.requireTrustedTypes
    THEN addTo(src, "require-trusted-types-for", "'script'")
    ELSE src

addTrustedTypes(src, o) ==
    IF o.requireTrustedTypes
    THEN mapSet(src, "require-trusted-types-for", <<"'script'">>)
    ELSE src

\* the mixed-content step writing both directives whether they exist or not
addMixedContentOverwriting(src) ==
    mapSet(mapSet(src, "upgrade-insecure-requests", <<>>),
           "block-all-mixed-content", <<>>)

addMixedContent(src) ==
    ensureSet(ensureSet(src, "upgrade-insecure-requests"),
              "block-all-mixed-content")

\* generate() without the default-src fallback
defaultSrcFallbackSkipped(src) == src

\* the default-src fallback
defaultSrcFallback(src) ==
    IF ~Has(src, "default-src") \/ Len(Get(src, "default-src")) = 0
    THEN mapSet(src, "default-src", <<"'none'">>)
    ELSE src

assemble(src, f, o) ==
    defaultSrcFallback(
        addMixedContent(
            addTrustedTypes(addUnsafe(addCompat(addNonce(src, o)), f, o), o)))

\* the header: directives joined by "; ", a directive's tokens by " "
RECURSIVE buildParts(_)
buildParts(src) ==
    IF src = <<>> THEN <<>>
    ELSE <<IF src[1].vals = <<>> THEN src[1].dir
           ELSE src[1].dir \o " " \o JoinWith(src[1].vals, " ")>>
         \o buildParts(Tail(src))

buildHeader(src) == JoinWith(buildParts(src), "; ")

---------------------------------------------------------------------------
(* The browser engine (csp-generator.browser.ts), on documents whose       *)
(* elements are external resources: its options, its parse() and its       *)
(* generate()                                                              *)

\* generateNonce() of the browser engine: 16 random bytes in hex
browserGenerateNonce == "72616e646f6d31366279746573212121"

\* this.opts and this.nonce as the browser constructor leaves them
browserNormalise(opts) ==
    [allowHttp |-> opt(opts, "allowHttp", FALSE),
     allowUnsafeInlineScript |-> opt(opts, "allowUnsafeInlineScript", FALSE),
     allowUnsafeInlineStyle |-> opt(opts, "allowUnsafeInlineStyle", FALSE),
     allowUnsafeEval |-> opt(opts, "allowUnsafeEval", FALSE),
     presets |-> opt(opts, "presets", <<>>),
     maxBodySize |-> opt(opts, "maxBodySize", 0),
     requireTrustedTypes |-> opt(opts, "requireTrustedTypes", FALSE),
     useStrictDynamic |-> opt(opts, "useStrictDynamic", FALSE),
     useNonce |-> opt(opts, "useNonce", FALSE),
     upgradeInsecureRequests |-> opt(opts, "upgradeInsecureRequests", TRUE),
     blockMixedContent |-> opt(opts, "blockMixedContent", TRUE),
     restrictFraming |-> opt(opts, "restrictFraming", FALSE),
     useSandbox |-> opt(opts, "useSandbox", FALSE),
     nonce |-> IF opt(opts, "useNonce", FALSE) THEN browserGenerateNonce ELSE ""]

\* `if (cond) store = f(store)`
when(cond, changed, src) == IF cond THEN changed ELSE src

\* parse(), "Add security features": what it adds when the document has
\* given it nothing else to add
browserSecurityFeatures(src, o) ==
    LET a == when(o.useStrictDynamic,
                  addTo(src, "script-src", "'strict-dynamic'"), src)
        b == when(o.useNonce /\ o.nonce # "",
                  addTo(a, "script-src", "'nonce-" \o o.nonce \o "'"), a)
        c == when(o.upgradeInsecureRequests,
                  addTo(b, "upgrade-insecure-requests", ""), b)
        d == when(o.blockMixedContent,
                  addTo(c, "block-all-mixed-content", ""), c)
        e == when(o.restrictFraming,
                  addTo(d, "frame-ancestors", "'none'"), d)
    IN when(o.useSandbox,
            addTo(e, "sandbox",
                  "allow-scripts allow-same-origin allow-forms allow-popups"), e)

\* a string as it is written
rawText(s) ==
    LET body == CASE s.kind = "abs" ->
                         s.scheme \o "://" \o HostText(s.host)
                         \o (IF s.port = 0 THEN "" ELSE ":" \o ToString(s.port))
                         \o s.text
                  [] s.kind = "opaque" -> s.scheme \o ":" \o s.text
                  [] OTHER -> s.text
    IN IF s.ws THEN " " \o body \o " " ELSE body

\* the each-loops of parse() over elements with a src or href, in the
\* order they run: tag, rel, directive
browserSelectors ==
    <<[tag |-> "script", rel |-> "", dir |-> "script-src"],
      [tag |-> "link", rel |-> "stylesheet", dir |-> "style-src"],
      [tag |-> "img", rel |-> "", dir |-> "img-src"],
      [tag |-> "iframe", rel |-> "", dir |-> "frame-src"],
      [tag |-> "video", rel |-> "", dir |-> "media-src"],
      [tag |-> "base", rel |-> "", dir |-> "base-uri"]>>

\* this.ensureSet(dir).add(src) for each of them: the attribute as written
RECURSIVE browserAddAll(_, _)
browserAddAll(src, ops) ==
    IF ops = <<>> THEN src
    ELSE browserAddAll(addTo(src, ops[1].dir, rawText(ops[1].raw)), Tail(ops))

\* generate() of the browser engine after `await this.parse()`
browserAssemble(src, f, o) ==
    LET a == addUnsafe(src, f, o)
        b == when(o.requireTrustedTypes,
                  mapSet(a, "require-trusted-types-for", <<"'script'">>), a)
        c == when(o.useStrictDynamic,
                  addTo(b, "script-src", "'strict-dynamic'"), b)
        d == when(o.restrictFraming,
                  mapSet(c, "frame-ancestors", <<"'none'">>), c)
        e == when(o.useSandbox,
                  mapSet(d, "sandbox",
                         <<"allow-scripts", "allow-same-origin", "allow-forms",
                           "allow-popups">>), d)
        g == when(o.upgradeInsecureRequests,
                  mapSet(e, "upgrade-insecure-requests", <<>>), e)
        h == when(o.blockMixedContent,
                  mapSet(g, "block-all-mixed-content", <<>>), g)
    IN defaultSrcFallback(h)

---------------------------------------------------------------------------
(* The state machine *)

\* this.opts and this.url of the instance
opts == normalise(input.opts)
url == ParseAbsolute(input.url)

\* which of the two classes is instantiated: the core engine unless the
\* input says otherwise
engine == IF "engine" \in DOMAIN input THEN input.engine ELSE "core"
\* this.opts of an instance of the browser engine
bopts == browserNormalise(input.opts)

enter(p) == phase' = p /\ hist' = Append(hist, p)

fail(e) == enter("Failed") /\ err' = e

\* new SecureCSPGenerator(inputUrl, opts)
Construct ==
    /\ phase = "New"
    /\ IF ctorError(input.url, input.opts) = None
       THEN /\ enter("Created")
            /\ sources' = initialSources(opts.presets)
            /\ err' = err
       ELSE /\ enter("Rejected")
            /\ err' = ctorError(input.url, input.opts)
            /\ sources' = sources
    /\ UNCHANGED <<input, srv, timer, fstate, received, html, flags, calls,
                   warned, returned, header, css>>

\* generate() is called: fetchHtml arms the timer and sends the request
Generate ==
    /\ engine = "core"
    /\ phase = "Created"
    /\ enter("Fetching")
    /\ timer' = "armed"
    /\ fstate' = "headers"
    /\ UNCHANGED <<input, srv, err, received, html, sources, flags, calls,
                   warned, returned, header, css>>

\* generate() is called once more on the instance after it returned, and
\* the server now answers with another page: html, sources and the
\* detected* fields are those the instance already has
GenerateAgain ==
    /\ engine = "core"
    /\ phase = "Complete"
    /\ "again" \in DOMAIN input /\ srv # input.again
    /\ srv' = input.again
    /\ enter("Fetching")
    /\ timer' = "armed"
    /\ fstate' = "headers"
    /\ received' = 0
    /\ UNCHANGED <<input, err, html, sources, flags, calls, warned, returned,
                   header, css>>

\* the timer fires: ac.abort(), the pending fetch rejects
TimerFire ==
    /\ timer = "armed"
    /\ timer' = "fired"
    /\ fstate' = "done"
    /\ fail("The operation was aborted")
    /\ UNCHANGED <<input, srv, received, html, sources, flags, calls, warned,
                   returned, header, css>>

\* fetch() rejects (a transport error); finally clears the timer
FetchReject ==
    /\ phase = "Fetching" /\ fstate = "headers"
    /\ srv.reach = "error"
    /\ timer' = "cleared"
    /\ fstate' = "done"
    /\ fail("Network error")
    /\ UNCHANGED <<input, srv, received, html, sources, flags, calls, warned,
                   returned, header, css>>

\* fetch() resolves with the response: finally clears the timer, then the
\* status, content-type and content-length checks run
FetchHeaders ==
    /\ phase = "Fetching" /\ fstate = "headers"
    /\ srv.reach = "ok"
    /\ timer' = "cleared"
    /\ IF ~responseOk(srv.status)
       THEN /\ fail("HTTP status") /\ fstate' = "done" /\ warned' = warned
       ELSE /\ warned' = IF srv.ctype # "" /\ ~isHtmlType(srv.ctype)
                         THEN warned \cup {"Expected HTML"} ELSE warned
            /\ IF tooLarge(srv.clen, opts.maxBodySize)
               THEN fail("Response too large") /\ fstate' = "done"
               ELSE fstate' = "body" /\ UNCHANGED <<phase, hist, err>>
    /\ UNCHANGED <<input, srv, received, html, sources, flags, calls,
                   returned, header, css>>

\* response.text() is reading: the transport takes in the next piece of the body
BodyChunk ==
    /\ phase = "Fetching" /\ fstate = "body"
    /\ received < Len(srv.body)
    /\ received' = received + 1
    /\ UNCHANGED <<input, srv, phase, hist, err, timer, fstate, html, sources,
                   flags, calls, warned, returned, header, css>>

\* the body ends: response.text() resolves, this.html is set, its length is checked
BodyEnd ==
    /\ phase = "Fetching" /\ fstate = "body"
    /\ received = Len(srv.body) /\ srv.finish = "end"
    /\ html' = srv.body
    /\ fstate' = "done"
    /\ IF exceeded(srv.body, opts.maxBodySize)
       THEN fail("Response exceeded maxBodySize")
       ELSE enter("Parsing") /\ err' = err
    /\ UNCHANGED <<input, srv, timer, received, sources, flags, calls, warned,
                   returned, header, css>>

\* the connection breaks while the body is read: response.text() rejects
BodyError ==
    /\ phase = "Fetching" /\ fstate = "body"
    /\ received = Len(srv.body) /\ srv.finish = "error"
    /\ fstate' = "done"
    /\ fail("terminated")
    /\ UNCHANGED <<input, srv, timer, received, html, sources, flags, calls,
                   warned, returned, header, css>>

\* parse(): synchronous from its first line to its last
Parse ==
    /\ phase = "Parsing"
    /\ LET r == runOps(sources, calls, parseOpsAt(srv.page, css.re), opts, url)
           scan == styleScan(srv.page, css.re,
                             Len(calls) + Len(externalOps(selectors, srv.page)))
       IN /\ sources' = r.src
          /\ calls' = r.calls
          /\ css' = [re |-> scan.re, tasks |-> css.tasks \o scan.tasks]
          /\ warned' = warned \cup
                 (IF \E i \in 1..Len(r.calls) : r.calls[i].state = "invalid"
                  THEN {"Invalid URL skipped"} ELSE {})
    /\ flags' = setFlags(flags, parseFlags(srv.page))
    /\ enter("Assembling")
    /\ UNCHANGED <<input, srv, err, timer, fstate, received, html, returned,
                   header>>

\* generate() after `await this.parse()`: the adjustments and the header
Assemble ==
    /\ phase = "Assembling"
    /\ sources' = assemble(sources, flags, opts)
    /\ returned' = sources'
    /\ header' = buildHeader(sources')
    /\ warned' = IF ~opts.allowUnsafeEval /\ flags.eval
                 THEN warned \cup {"Detected eval-like patterns"} ELSE warned
    /\ enter("Complete")
    /\ UNCHANGED <<input, srv, err, timer, fstate, received, html, flags, calls,
                   css>>

\* a lookup answers and the call that awaited it goes on
DnsResolve(i) ==
    /\ calls[i].state = "pending"
    /\ dnsLookup(calls[i].url.host).ok
    /\ LET c == resolveFinish(calls[i], dnsLookup(calls[i].url.host).addrs)
       IN /\ calls' = [calls EXCEPT ![i] = c]
          /\ sources' = IF c.state = "added"
                        THEN addTo(sources, c.dir, tokenOf(c)) ELSE sources
    /\ UNCHANGED <<input, srv, phase, hist, err, timer, fstate, received, html,
                   flags, warned, returned, header, css>>

\* a lookup rejects: so does the promise of the call, which nobody awaits
DnsFail(i) ==
    /\ calls[i].state = "pending"
    /\ ~dnsLookup(calls[i].url.host).ok
    /\ calls' = [calls EXCEPT ![i].state = "dnsfail"]
    /\ UNCHANGED <<input, srv, phase, hist, err, timer, fstate, received, html,
                   sources, flags, warned, returned, header, css>>

\* the call an extractCssUrls awaited has settled: the extraction goes on to
\* its next await or its end, or ends with the rejection of the call
ExtractResume(t) ==
    /\ css.tasks[t].loop \in {"url", "import"}
    /\ calls[css.tasks[t].wait].state # "pending"
    /\ IF calls[css.tasks[t].wait].state = "dnsfail"
       THEN /\ css' = [css EXCEPT !.tasks[t].loop = "failed"]
            /\ UNCHANGED <<sources, calls, warned>>
       ELSE LET r == extractStep(css.tasks[t], css.re)
                run == runOps(sources, calls, r.ops, opts, url)
            IN /\ css' = [re |-> r.re,
                          tasks |-> [css.tasks EXCEPT
                                        ![t] = [r.task EXCEPT
                                                   !.wait = Len(run.calls)]]]
               /\ sources' = run.src
               /\ calls' = run.calls
               /\ warned' = warned \cup
                      (IF run.calls[Len(run.calls)].state = "invalid"
                          /\ r.ops # <<>>
                       THEN {"Invalid URL skipped"} ELSE {})
    /\ UNCHANGED <<input, srv, phase, hist, err, timer, fstate, received, html,
                   flags, returned, header>>

\* generate() of the browser engine, from the request to the header:
\* fetchHtml has no check after response.text()
BrowserGenerate ==
    /\ engine = "browser"
    /\ phase = "Created"
    /\ srv.reach = "ok" /\ srv.finish = "end"
    /\ timer' = "cleared"
    /\ fstate' = "done"
    /\ warned' = IF responseOk(srv.status) /\ srv.ctype # ""
                    /\ ~isHtmlType(srv.ctype)
                 THEN warned \cup {"Expected HTML"} ELSE warned
    /\ IF ~responseOk(srv.status) \/ tooLarge(srv.clen, bopts.maxBodySize)
       THEN /\ phase' = "Failed"
            /\ hist' = hist \o <<"Fetching", "Failed">>
            /\ err' = IF ~responseOk(srv.status) THEN "HTTP status"
                      ELSE "Response too large"
            /\ UNCHANGED <<received, html, sources, returned, header>>
       ELSE /\ received' = Len(srv.body)
            /\ html' = srv.body
            /\ sources' = browserAssemble(
                              browserSecurityFeatures(
                                  browserAddAll(sources,
                                      externalOps(browserSelectors, srv.page)),
                                  bopts),
                              flags, bopts)
            /\ returned' = sources'
            /\ header' = buildHeader(sources')
            /\ phase' = "Complete"
            /\ hist' = hist \o <<"Fetching", "Parsing", "Assembling", "Complete">>
            /\ err' = err
    /\ UNCHANGED <<input, srv, flags, calls, css>>

Next ==
    \/ Construct
    \/ Generate
    \/ GenerateAgain
    \/ TimerFire
    \/ FetchReject
    \/ FetchHeaders
    \/ BodyChunk
    \/ BodyEnd
    \/ BodyError
    \/ Parse
    \/ Assemble
    \/ BrowserGenerate
    \/ \E i \in 1..Len(calls) : DnsResolve(i)
    \/ \E i \in 1..Len(calls) : DnsFail(i)
    \/ \E t \in 1..Len(css.tasks) : ExtractResume(t)

---------------------------------------------------------------------------
(* Inputs *)

Site == NameHost(<<"site", "example">>)
Cdn == NameHost(<<"cdn", "example", "com">>)

InputUrls ==
    {Empty, Bad("not a url"), Path("/index.html"),
     Abs("https", Site, 0), Abs("http", Site, 0), Abs("ftp", Site, 0)}

Preset(dir, list) == [dir |-> dir, list |-> list]
PresetChoices ==
    {<<>>,
     <<Preset("default-src", <<>>)>>,
     <<Preset("default-src", <<"https://d.example">>)>>,
     <<Preset("img-src", <<"https://p.example", "https://p.example">>)>>}

\* the elements pages are made of
Elements ==
    {Ext("script", Abs("https", Cdn, 0)),
     Ext("script", AbsWs("http", NameHost(<<"insecure", "example", "com">>), 0)),
     Ext("img", Abs("https", NameHost(<<"rebind", "example", "com">>), 443)),
     Ext("img", Abs("https", V4(10, 0, 0, 5), 0)),
     Ext("img", Abs("https", NameHost(<<"ll", "example", "com">>), 0)),
     Stylesheet(Abs("https", NameHost(<<"printer", "local">>), 0)),
     Ext("iframe", Abs("https", NameHost(<<"localhost">>), 8443)),
     Ext("video", Abs("https", V6(<<65152, 0, 0, 0, 0, 0, 0, 1>>), 0)),
     Ext("audio", Abs("https", NameHost(<<"flaky", "example", "com">>), 0)),
     Ext("track", Opaque("data")),
     Ext("script", Path("/js/app.js")),
     Ext("img", Bad("https://")),
     InlineScript("", "", "console.log(1)")}

SeqsUpTo(S, n) == UNION {[1..k -> S] : k \in 0..n}

OkResponse(page) ==
    [reach |-> "ok", status |-> 200, ctype |-> "text/html",
     clen |-> ContentLength("absent", 0), body |-> <<"A">>, finish |-> "end",
     page |-> page]

Start ==
    /\ phase = "New" /\ hist = <<"New">> /\ err = None
    /\ timer = "unset" /\ fstate = "idle" /\ received = 0 /\ html = <<>>
    /\ sources = <<>> /\ calls = <<>> /\ warned = {}
    /\ css = [re |-> RegexStart, tasks |-> <<>>]
    /\ flags = [inlineScript |-> FALSE, inlineStyle |-> FALSE, eval |-> FALSE]
    /\ returned = <<>> /\ header = None

\* the constructor's inputs vary: target URL, scheme and origin policy,
\* presets; a page of at most one element
InitConstruction ==
    /\ \E u \in InputUrls, http \in BOOLEAN, priv \in BOOLEAN, ps \in PresetChoices :
          input = [url |-> u,
                   opts |-> [allowHttp |-> http, allowPrivateOrigins |-> priv,
                             presets |-> ps]]
    /\ \E page \in SeqsUpTo(Elements, 1) : srv = OkResponse(page)

\* the page varies, under each scheme and origin policy
InitPages ==
    /\ \E http \in BOOLEAN, priv \in BOOLEAN :
          input = [url |-> Abs("https", Site, 0),
                   opts |-> [allowHttp |-> http, allowPrivateOrigins |-> priv]]
    /\ \E page \in SeqsUpTo(Elements, MaxElems) : srv = OkResponse(page)

Bodies == SeqsUpTo(CharClass, MaxBodyChars)
ContentLengths ==
    {ContentLength("absent", 0), ContentLength("nan", 0)}
    \cup {ContentLength("num", n) : n \in 0..(MaxLimit + 1)}

Responses ==
    {[OkResponse(<<>>) EXCEPT !.reach = r] : r \in {"error", "never"}}
    \cup {[OkResponse(<<>>) EXCEPT !.status = 404]}
    \cup {[OkResponse(<<>>) EXCEPT !.ctype = t] : t \in {"application/json", ""}}
    \cup {[OkResponse(<<>>) EXCEPT !.clen = l, !.body = b, !.finish = f] :
             l \in ContentLengths, b \in Bodies, f \in {"end", "stall", "error"}}

\* the response varies: whether it arrives, status, content-type,
\* content-length, the body and how it ends; under each maxBodySize
InitResponses ==
    /\ \E limit \in 0..MaxLimit :
          input = [url |-> Abs("https", Site, 0), opts |-> [maxBodySize |-> limit]]
    /\ \E r \in Responses, page \in {<<>>, <<Ext("script", Abs("https", Cdn, 0))>>} :
          srv = [r EXCEPT !.page = page]

\* elements that carry inline code or inline style
InlineElements ==
    {InlineScript("", "", "console.log(1)"),
     InlineScript("abc123", "sha384-xyz", "console.log(2)"),
     InlineScript("", "sha384-xyz", "console.log(3)"),
     InlineScript("", "", " "),
     InlineScript("", "", "eval(x)"),
     InlineScript("a'; img-src *; x '", "", "console.log(4)"),
     InlineScript("", "unsafe-eval", "console.log(5)"),
     El("style", "", NoAttr, "", "", "body{margin:0}", ""),
     El("p", "", NoAttr, "", "", "", "color:red")}

\* inline elements vary, with and without the instance's nonce and
\* allowUnsafeInlineScript
InitScripts ==
    /\ \E n \in BOOLEAN, s \in BOOLEAN :
          input = [url |-> Abs("https", Site, 0),
                   opts |-> [useNonce |-> n, allowUnsafeInlineScript |-> s]]
    /\ \E page \in SeqsUpTo(InlineElements, MaxElems) : srv = OkResponse(page)

PolicyPresets ==
    {<<>>,
     <<Preset("require-trusted-types-for", <<"'other'">>)>>,
     <<Preset("upgrade-insecure-requests", <<"x">>)>>,
     <<Preset("script-src", <<"'unsafe-inline'", "'unsafe-eval'">>)>>,
     <<Preset("connect-src", <<"https://api.example.com">>),
       Preset("block-all-mixed-content", <<>>)>>}

PolicyPages ==
    {<<>>,
     <<InlineScript("", "", "console.log(1)")>>,
     <<InlineScript("", "", "eval(x)")>>,
     <<InlineScript("", "", " ")>>,
     <<El("style", "", NoAttr, "", "", "body{margin:0}", "")>>}

\* the options generate() reads vary, with presets for the directives it
\* writes; the response is or is not declared as HTML
InitPolicy ==
    /\ \E n \in BOOLEAN, s \in BOOLEAN, y \in BOOLEAN, e \in BOOLEAN,
          t \in BOOLEAN, ps \in PolicyPresets :
          input = [url |-> Abs("https", Site, 0),
                   opts |-> [useNonce |-> n, allowUnsafeInlineScript |-> s,
                             allowUnsafeInlineStyle |-> y, allowUnsafeEval |-> e,
                             requireTrustedTypes |-> t, presets |-> ps]]
    /\ \E page \in PolicyPages, c \in {"text/html", "application/json"} :
          srv = [OkResponse(page) EXCEPT !.ctype = c]

\* elements whose origin is added only after a lookup has answered
LookupElements ==
    {Ext("script", Abs("https", Cdn, 0)),
     Ext("img", Abs("https", NameHost(<<"img", "example", "com">>), 0)),
     Ext("audio", Abs("https", NameHost(<<"media", "example", "com">>), 0))}

\* pages of such elements, without a nonce
InitSchedules ==
    /\ input = [url |-> Abs("https", Site, 0), opts |-> [useNonce |-> FALSE]]
    /\ \E page \in SeqsUpTo(LookupElements, MaxElems) : srv = OkResponse(page)

\* presets as an object of the caller
OptionPresets ==
    {<<Preset("script-src", <<"'self'">>)>>,
     <<Preset("sandbox", <<"allow-scripts">>)>>,
     <<Preset("script-source", <<"*">>)>>,
     <<Preset("connect-src", <<"https://api.example.com">>),
       Preset("x-frame", <<"deny">>)>>}

\* presets as text:
\*   script-src:'self'
\*   ` img-src : https://img.example.com, https://b.example.com`
\*   script-source:*
\*   sandbox:allow-scripts
\*   style-src;font-src:
\*   connect-src:'self';x-evil:*
PresetStrings ==
    {<<Seg(FALSE, "script-src", <<<<Val(FALSE, "'self'")>>>>)>>,
     <<Seg(TRUE, "img-src",
           <<<<Val(TRUE, "https")>>,
             <<Val(FALSE, "//img.example.com"), Val(TRUE, "https")>>,
             <<Val(FALSE, "//b.example.com")>>>>)>>,
     <<Seg(FALSE, "script-source", <<<<Val(FALSE, "*")>>>>)>>,
     <<Seg(FALSE, "sandbox", <<<<Val(FALSE, "allow-scripts")>>>>)>>,
     <<Seg(FALSE, "style-src", <<>>),
       Seg(FALSE, "font-src", <<<<Val(FALSE, "")>>>>)>>,
     <<Seg(FALSE, "connect-src", <<<<Val(FALSE, "'self'")>>>>),
       Seg(FALSE, "x-evil", <<<<Val(FALSE, "*")>>>>)>>}

\* the presets reach the constructor as an object, through the CLI's
\* --presets or through the launcher's CSP_PRESETS
InitPresets ==
    /\ \/ \E ps \in OptionPresets :
             input = [url |-> Abs("https", Site, 0), opts |-> [presets |-> ps],
                      via |-> "options", given |-> ps]
       \/ \E text \in PresetStrings :
             input = [url |-> Abs("https", Site, 0),
                      opts |-> [presets |-> parsePresets(text)],
                      via |-> "cli", given |-> text]
       \/ \E text \in PresetStrings :
             input = [url |-> Abs("https", Site, 0),
                      opts |-> [presets |-> launcherParsePresets(text)],
                      via |-> "launcher", given |-> text]
    /\ srv = OkResponse(<<>>)

BrowserPresets ==
    {<<>>,
     <<Preset("frame-ancestors", <<"'self'">>)>>,
     <<Preset("sandbox", <<"allow-downloads">>)>>,
     <<Preset("upgrade-insecure-requests", <<"x">>),
       Preset("block-all-mixed-content", <<"y">>)>>,
     <<Preset("require-trusted-types-for", <<"'other'">>)>>}

\* the browser engine, its policy options and presets for the directives
\* they write, on a document without elements
InitBrowser ==
    /\ \E t \in BOOLEAN, f \in BOOLEAN, b \in BOOLEAN, u \in BOOLEAN,
          m \in BOOLEAN, d \in BOOLEAN, n \in BOOLEAN, ps \in BrowserPresets :
          input = [url |-> Abs("https", Site, 0),
                   opts |-> [requireTrustedTypes |-> t, restrictFraming |-> f,
                             useSandbox |-> b, upgradeInsecureRequests |-> u,
                             blockMixedContent |-> m, useStrictDynamic |-> d,
                             useNonce |-> n, presets |-> ps],
                   engine |-> "browser"]
    /\ srv = OkResponse(<<>>)

\* candidates the resolver decides on: base elements, literal addresses at
\* the edges of the private ranges, a name answered with a link-local
\* address, a script over http, and a src attribute that is a quoted keyword
CandidateElements ==
    {Ext("base", Abs("http", Cdn, 0)),
     Ext("base", Abs("https", Public4, 0)),
     Ext("base", Abs("https", V4(10, 0, 0, 5), 0)),
     Ext("base", Abs("https", Cdn, 0)),
     Ext("img", Abs("https", V4(11, 0, 0, 1), 0)),
     Ext("img", Abs("https", V4(127, 0, 0, 1), 0)),
     Ext("img", Abs("https", V4(172, 15, 0, 1), 0)),
     Ext("img", Abs("https", V4(172, 16, 0, 1), 0)),
     Ext("img", Abs("https", V4(172, 31, 255, 1), 0)),
     Ext("img", Abs("https", V4(172, 32, 0, 1), 0)),
     Ext("img", Abs("https", V4(192, 168, 1, 1), 0)),
     Ext("img", Abs("https", V4(192, 169, 1, 1), 0)),
     Ext("img", Abs("https", V6(<<0, 0, 0, 0, 0, 0, 0, 1>>), 0)),
     Ext("img", Abs("https", V6(<<65215, 0, 0, 0, 0, 0, 0, 1>>), 0)),
     Ext("img", Abs("https", NameHost(<<"ll", "example", "com">>), 0)),
     Ext("script", Abs("http", Cdn, 0)),
     Ext("script", Quoted("'unsafe-eval'"))}

\* pages of them, under the default origin policy, with and without a nonce
InitCandidates ==
    /\ \E n \in BOOLEAN :
          input = [url |-> Abs("https", Site, 0), opts |-> [useNonce |-> n]]
    /\ \E page \in SeqsUpTo(CandidateElements, MaxElems) : srv = OkResponse(page)

\* the CLI is given --format and CSP_OUTPUT_FORMAT, each absent ("") or some
\* text; getOptions() computes the outputFormat of the options
InitFormats ==
    /\ \E format \in {"", "header", "raw", "json", "csp-only", "invalid-format"},
          env \in {"", "json", "xml"}, http \in BOOLEAN :
          input = [url |-> Abs("https", Site, 0), opts |-> [allowHttp |-> http],
                   format |-> format, env |-> env,
                   outputFormat |-> getOutputFormat(format, env)]
    /\ srv = OkResponse(<<>>)

\* external resources of the pages given to the browser engine
BrowserElements ==
    {Ext("script", [Abs("https", Cdn, 0) EXCEPT !.text = "/js/app.js?v=1#top"]),
     Ext("video", Abs("https", NameHost(<<"media", "example", "com">>), 0)),
     Ext("img", Abs("http", NameHost(<<"insecure", "example", "com">>), 0)),
     Ext("img", Abs("https", V4(10, 0, 0, 5), 0)),
     Ext("iframe", Abs("https", NameHost(<<"localhost">>), 8443)),
     Stylesheet(Path("/css/site.css"))}

\* the browser engine on pages of them, under each scheme and origin policy
InitBrowserPages ==
    /\ \E http \in BOOLEAN, priv \in BOOLEAN :
          input = [url |-> Abs("https", Site, 0),
                   opts |-> [allowHttp |-> http, allowPrivateOrigins |-> priv],
                   engine |-> "browser"]
    /\ \E page \in SeqsUpTo(BrowserElements, MaxElems) : srv = OkResponse(page)

\* elements with CSS that names resources: two style attributes laid out
\* alike, a block with an @import url() and a url(), a block with an
\* @import of a string
CssElements ==
    {El("p", "", NoAttr, "", "", "",
        "background:url(https://img.example.com/bg.png)"),
     El("div", "", NoAttr, "", "", "",
        "background:url(https://pic.example.com/bg.png)"),
     El("style", "", NoAttr, "", "",
        "@import url('https://fonts.example.com/font.css'); body{background-image:url('https://images.example.com/bg.png')}",
        ""),
     El("style", "", NoAttr, "", "",
        "@import 'https://theme.example.com/main.css';", "")}

\* pages of such elements without lookups, and single elements with them
InitStyles ==
    \E priv \in BOOLEAN :
        /\ input = [url |-> Abs("https", Site, 0),
                    opts |-> [useNonce |-> FALSE, allowPrivateOrigins |-> priv]]
        /\ \E page \in SeqsUpTo(CssElements, IF priv THEN MaxElems ELSE 1) :
               srv = OkResponse(page)

\* elements of the pages of an instance that is asked twice
RepeatElements ==
    {Ext("script", Abs("https", Cdn, 0)),
     Ext("img", Abs("https", Public4, 0)),
     InlineScript("", "", " "),
     El("style", "", NoAttr, "", "", "body{margin:0}", "")}

\* generate() is called twice and the two calls fetch different pages
InitRepeat ==
    /\ \E s \in BOOLEAN, t \in BOOLEAN, next \in SeqsUpTo(RepeatElements, 1) :
          input = [url |-> Abs("https", Site, 0),
                   opts |-> [useNonce |-> FALSE, allowUnsafeInlineScript |-> s,
                             allowUnsafeInlineStyle |-> t],
                   again |-> OkResponse(next)]
    /\ \E page \in SeqsUpTo(RepeatElements, MaxElems) : srv = OkResponse(page)
    /\ srv # input.again

Init ==
    /\ Start
    /\ \/ InitConstruction
       \/ InitPages
       \/ InitResponses
       \/ InitScripts
       \/ InitPolicy
       \/ InitSchedules
       \/ InitPresets
       \/ InitBrowser
       \/ InitRepeat
       \/ InitStyles
       \/ InitBrowserPages
       \/ InitFormats
       \/ InitCandidates

Spec == Init /\ [][Next]_vars

---------------------------------------------------------------------------
(* Vocabulary of the properties *)

Settled == phase \in {"Rejected", "Complete", "Failed"}
Returned == phase = "Complete"
CallIds == 1..Len(calls)

\* the ranges the specification lists: 10.0.0.0/8, 172.16.0.0/12,
\* 192.168.0.0/16, 127.0.0.0/8, ::1 and fe80::/10, on the numbers of an address
InListedRange(a) ==
    \/ /\ a.kind = "v4"
       /\ \/ a.nums[1] = 10
          \/ a.nums[1] = 172 /\ a.nums[2] \in 16..31
          \/ a.nums[1] = 192 /\ a.nums[2] = 168
          \/ a.nums[1] = 127
    \/ /\ a.kind = "v6"
       /\ \/ a.nums = <<0, 0, 0, 0, 0, 0, 0, 1>>
          \/ a.nums[1] \in 65152..65215

\* a host the origin policy is about: localhost, *.local, a literal address
\* in a listed range, or a name with at least one answer in a listed range
PrivateHost(h) ==
    \/ h.kind = "name" /\ h.labels = <<"localhost">>
    \/ h.kind = "name" /\ Len(h.labels) >= 2 /\ h.labels[Len(h.labels)] = "local"
    \/ h.kind \in {"v4", "v6"} /\ InListedRange(h)
    \/ /\ h.kind = "name"
       /\ dnsLookup(h).ok
       /\ \E k \in 1..Len(dnsLookup(h).addrs) : InListedRange(dnsLookup(h).addrs[k])

\* a call made with a URL (not a quoted token) that parsed
UrlCall(c) == c.state # "verbatim" /\ c.url # Invalid

\* the tokens of directive dir in the header that was returned
HeaderTokens(dir) == Range(Get(returned, dir))
AllHeaderTokens == UNION {Range(returned[k].vals) : k \in 1..Len(returned)}

\* a candidate URL that passes the scheme check and the SSRF check
Passes(c) ==
    /\ UrlCall(c)
    /\ schemeAllowed(opts, c.url)
    /\ \/ opts.allowPrivateOrigins
       \/ /\ ~blockedByName(c.url.host)
          /\ IF isIP(c.url.host) THEN ~isPrivateIp(AddrLex(c.url.host))
             ELSE /\ dnsLookup(c.url.host).ok
                  /\ ~anyPrivate(dnsLookup(c.url.host).addrs)

---------------------------------------------------------------------------
(* C1 *)

\* C1: with allowPrivateOrigins = false no call adds the origin of a private
\* host (localhost, *.local, a literal address in a listed range, a name with
\* an answer in a listed range), and no returned header holds such an origin;
\* with allowPrivateOrigins = true the origin of such a host, its scheme
\* allowed, is in the store once parse() has run.
C1_NoPrivateOrigin ==
    /\ ~opts.allowPrivateOrigins =>
          \A i \in CallIds :
              UrlCall(calls[i]) /\ PrivateHost(calls[i].url.host) =>
                  /\ calls[i].state # "added"
                  /\ Returned => Origin(calls[i].url) \notin AllHeaderTokens
    /\ opts.allowPrivateOrigins =>
          \A i \in CallIds :
              /\ UrlCall(calls[i]) /\ PrivateHost(calls[i].url.host)
              /\ schemeAllowed(opts, calls[i].url)
              => Origin(calls[i].url) \in Range(Get(sources, calls[i].dir))

---------------------------------------------------------------------------
(* C2 *)

\* C2: with allowHttp = false every origin a call adds has scheme https and
\* no returned header holds the origin of a candidate of another scheme; with
\* allowHttp = true the origin of an http candidate that passes the SSRF
\* check is in its directive of the returned header.
C2_SchemePolicy ==
    /\ ~opts.allowHttp =>
          \A i \in CallIds :
              UrlCall(calls[i]) /\ calls[i].url.scheme # "https" =>
                  /\ calls[i].state \notin {"added", "pending"}
                  /\ Returned => Origin(calls[i].url) \notin AllHeaderTokens
    /\ opts.allowHttp /\ Returned =>
          \A i \in CallIds :
              calls[i].url.scheme = "http" /\ Passes(calls[i]) =>
                  Origin(calls[i].url) \in HeaderTokens(calls[i].dir)

---------------------------------------------------------------------------
(* C3 *)

\* C3: when generate() has resolved with a header no resolveAndAdd call is
\* still pending, and the origin of every candidate that passes the scheme
\* and SSRF checks is in its directive of that header.
C3_AllResolvedAtCompletion ==
    Returned =>
        \A i \in CallIds :
            /\ calls[i].state # "pending"
            /\ Passes(calls[i]) =>
                   Origin(calls[i].url) \in HeaderTokens(calls[i].dir)

---------------------------------------------------------------------------
(* C4 *)

\* C4: a header is never returned by a run in which a DNS lookup failed:
\* generate() rejects instead.
C4_DnsFailureAborts ==
    (\E i \in CallIds : calls[i].state = "dnsfail") => ~Returned /\ header = None

---------------------------------------------------------------------------
(* C5 *)

PhaseChain == <<"New", "Created", "Fetching", "Parsing", "Assembling", "Complete">>
IsPrefix(a, b) == Len(a) <= Len(b) /\ SubSeq(b, 1, Len(a)) = a

\* C5: the phases of a call are a prefix of Created, Fetching, Parsing,
\* Assembling, Complete, or such a prefix cut after Fetching or Parsing and
\* ended by Failed; a failure of the scan (a lookup that rejects) leaves the
\* call Failed; assembly starts only when every resolution of the scan has
\* ended; a failed call has no header.
C5_PhaseOrder ==
    /\ \/ IsPrefix(hist, PhaseChain)
       \/ hist = <<"New", "Rejected">>
       \/ /\ hist[Len(hist)] = "Failed"
          /\ hist[Len(hist) - 1] \in {"Fetching", "Parsing"}
          /\ IsPrefix(SubSeq(hist, 1, Len(hist) - 1), PhaseChain)
    /\ phase = hist[Len(hist)]
    /\ phase = "Failed" => header = None /\ err # None
    /\ (\E i \in CallIds : calls[i].state = "dnsfail") => phase = "Failed"
    /\ phase \in {"Assembling", "Complete"} =>
           \A i \in CallIds : calls[i].state # "pending"

---------------------------------------------------------------------------
(* C6 *)

\* C6: with maxBodySize = N > 0 a response whose body is larger than N bytes
\* never gets past fetchHtml: no parse, no header.
C6_BodyLimit ==
    opts.maxBodySize > 0 /\ byteLength(srv.body) > opts.maxBodySize =>
        /\ phase \notin {"Parsing", "Assembling", "Complete"}
        /\ header = None

---------------------------------------------------------------------------
(* C7 *)

\* C7: with maxBodySize = N > 0, while the body is being received the bytes
\* held are at most N.
C7_IncrementalLimit ==
    opts.maxBodySize > 0 /\ phase = "Fetching" =>
        byteLength(SubSeq(srv.body, 1, received)) <= opts.maxBodySize

---------------------------------------------------------------------------
(* C8 *)

\* C8: a fetch in progress can always take a step towards settling: the
\* transport delivers something, or the timer fires and aborts the request.
C8_FetchBoundedByTimeout == phase = "Fetching" => ENABLED Next

---------------------------------------------------------------------------
(* C9 *)

RejectedInput ==
    \/ input.url.kind = "empty"
    \/ ParseAbsolute(input.url) = Invalid
    \/ ParseAbsolute(input.url).scheme # "https" /\ ~opts.allowHttp

\* C9: for an empty URL, an unparsable URL, or a scheme other than https
\* without allowHttp, the constructor throws and nothing of generate() ever
\* runs; every other input, an http URL with allowHttp among them, is accepted.
C9_ConstructionFailsFast ==
    /\ RejectedInput =>
          /\ phase \in {"New", "Rejected"}
          /\ timer = "unset" /\ fstate = "idle" /\ header = None
          /\ phase = "Rejected" => err # None
    /\ ~RejectedInput => phase # "Rejected"

C9_Witness ==
    /\ phase = "Rejected"
    /\ ParseAbsolute(input.url).scheme = "http"
    /\ err = "Insecure scheme rejected"

---------------------------------------------------------------------------
(* C10 *)

\* C10: a returned header has default-src with at least one token: the
\* tokens default-src had after the presets were merged, or exactly 'none'
\* when that set was empty.
C10_DefaultSrcNeverEmpty ==
    Returned =>
        LET merged == Get(initialSources(opts.presets), "default-src") IN
        /\ Has(returned, "default-src")
        /\ Len(Get(returned, "default-src")) >= 1
        /\ merged = <<>> => Get(returned, "default-src") = <<"'none'">>
        /\ merged # <<>> => Get(returned, "default-src") = merged

C10_Witness ==
    /\ Returned
    /\ opts.presets = <<Preset("default-src", <<>>)>>
    /\ Get(returned, "default-src") = <<"'none'">>

---------------------------------------------------------------------------
(* C11 *)

\* C11: every token of every preset is in the value list of its directive
\* in the returned header, in the core engine and in the browser engine,
\* whatever the page and the other options are.
C11_PresetsVerbatim ==
    Returned =>
        \A k \in 1..Len(opts.presets) :
            \A tok \in Range(opts.presets[k].list) :
                tok \in HeaderTokens(opts.presets[k].dir)

---------------------------------------------------------------------------
(* C12 *)

\* how the presets reached the constructor, and what was given
PresetsVia == IF "via" \in DOMAIN input THEN input.via ELSE "options"
PresetsGiven == IF "given" \in DOMAIN input THEN input.given ELSE opts.presets

\* the directive names given, and those given with at least one value
GivenNames ==
    IF PresetsVia = "options"
    THEN {PresetsGiven[k].dir : k \in 1..Len(PresetsGiven)}
    ELSE {PresetsGiven[k].name : k \in 1..Len(PresetsGiven)}
GivenWithValues ==
    IF PresetsVia = "options"
    THEN {PresetsGiven[k].dir : k \in 1..Len(PresetsGiven)}
    ELSE {PresetsGiven[k].name :
             k \in {j \in 1..Len(PresetsGiven) :
                       /\ PresetsGiven[j].name # ""
                       /\ Len(PresetsGiven[j].pieces) >= 1
                       /\ ~emptyPiece(PresetsGiven[j].pieces[1])}}

\* C12: a preset name outside the directive vocabulary never becomes an
\* entry of the store nor a directive of the returned header, through the
\* constructor options, the CLI and the launcher alike; and a name of the
\* vocabulary given with values is an entry of the store once the instance
\* exists.
C12_UnknownPresetNames ==
    /\ \A n \in GivenNames \ DirectiveNames :
          /\ ~Has(sources, n)
          /\ Returned => ~Has(returned, n)
    /\ phase \notin {"New", "Rejected"} =>
          \A n \in GivenWithValues \cap DirectiveNames : Has(sources, n)

---------------------------------------------------------------------------
(* C13 *)

\* a script element without src that has text besides whitespace
HasInlineCode(el) ==
    el.tag = "script" /\ el.url = NoAttr /\ el.text \notin {"", " "}

\* the token the priority rule gives it: nonce, else integrity, else hash
ExpectedToken(el) ==
    IF el.nonce # "" THEN "'nonce-" \o el.nonce \o "'"
    ELSE IF el.integrity # "" THEN "'" \o el.integrity \o "'"
    ELSE "'sha256-" \o sha256Base64(el.text) \o "'"

ExpectedTokens ==
    LET scripts == SelectSeq(srv.page, HasInlineCode)
    IN [i \in 1..Len(scripts) |-> ExpectedToken(scripts[i])]

\* the tokens the inline-script pass emitted, in the order it emitted them:
\* those added as they are that are not the src or href value of an element
EmittedByInlinePass(c) ==
    /\ c.state = "verbatim"
    /\ \A i \in 1..Len(srv.page) : srv.page[i].url # c.raw
EmittedTokens ==
    LET made == SelectSeq(calls, EmittedByInlinePass)
    IN [i \in 1..Len(made) |-> tokenOf(made[i])]

---------------------------------------------------------------------------
(* C14 *)

\* the page without its <script> elements that have neither src nor text
NotEmptyScript(el) ==
    ~(el.tag = "script" /\ el.url = NoAttr /\ el.text \in {"", " "})
WithoutEmptyScripts(page) == SelectSeq(page, NotEmptyScript)

\* the header of a run on this page in which nothing is left in flight
HeaderFor(page) ==
    buildHeader(
        assemble(runOps(initialSources(opts.presets), <<>>, parseOps(page),
                        opts, url).src,
                 parseFlags(page), opts))

\* C14: a <script> without src whose text is empty or whitespace does not
\* set the inline-script flag, and the returned header is the one of the
\* same page without such elements.
C14_EmptyScriptsIgnored ==
    engine = "core" /\ phase \in {"Assembling", "Complete"} =>
        /\ flags.inlineScript = (\E i \in 1..Len(srv.page) : HasInlineCode(srv.page[i]))
        /\ Returned /\ (\A i \in 1..Len(srv.page) : srv.page[i].url = NoAttr) =>
               header = HeaderFor(WithoutEmptyScripts(srv.page))

---------------------------------------------------------------------------
(* C15 *)

\* a preset gives tok for directive dir
PresetSupplies(dir, tok) ==
    \E k \in 1..Len(opts.presets) :
        opts.presets[k].dir = dir /\ tok \in Range(opts.presets[k].list)

\* C15: in a returned header of the core engine 'unsafe-inline' is in
\* script-src only when an inline script was detected and
\* allowUnsafeInlineScript is true, or a preset gives it; and in style-src
\* only when an inline style was detected and allowUnsafeInlineStyle is
\* true, or a preset gives it.
C15_UnsafeInlineOnlyWhenAllowed ==
    engine = "core" /\ Returned =>
        /\ "'unsafe-inline'" \in HeaderTokens("script-src") =>
               \/ flags.inlineScript /\ opts.allowUnsafeInlineScript
               \/ PresetSupplies("script-src", "'unsafe-inline'")
        /\ "'unsafe-inline'" \in HeaderTokens("style-src") =>
               \/ flags.inlineStyle /\ opts.allowUnsafeInlineStyle
               \/ PresetSupplies("style-src", "'unsafe-inline'")

---------------------------------------------------------------------------
(* C16 *)

\* C16: the step that receives the response headers fails exactly for a
\* status outside 2xx or a content-length over the limit, whatever the
\* content-type is; the step that builds the header builds the one it would
\* build had the eval heuristic not fired; and 'unsafe-eval' is in script-src
\* of that header exactly when allowUnsafeEval is true or a preset gives it.
C16_WarningsDoNotInfluence ==
    [][/\ /\ phase = "Fetching" /\ fstate = "headers" /\ srv.reach = "ok"
          /\ timer' = "cleared"
          => /\ (phase' = "Failed") =
                    (~responseOk(srv.status) \/ tooLarge(srv.clen, opts.maxBodySize))
             /\ (phase' # "Failed") => fstate' = "body"
       /\ phase = "Assembling" /\ phase' = "Complete"
          => /\ returned' = assemble(sources, [flags EXCEPT !.eval = FALSE], opts)
             /\ header' = buildHeader(returned')
             /\ ("'unsafe-eval'" \in Range(Get(returned', "script-src"))) =
                    (opts.allowUnsafeEval
                     \/ PresetSupplies("script-src", "'unsafe-eval'"))
      ]_vars

---------------------------------------------------------------------------
(* C17 *)

\* the attribute texts of the model's pages that hold ';' or whitespace
SeparatorTexts == {"a'; img-src *; x '"}

\* tok is such a text, or such a text between the quotes of a nonce or an
\* integrity token
HasSeparator(tok) ==
    \E t \in SeparatorTexts :
        tok \in {t, "'nonce-" \o t \o "'", "'" \o t \o "'"}

\* C17: a returned header is the directives of the store joined by "; ",
\* each its name followed by its tokens; every name is one of the directive
\* vocabulary and occurs once, and no token is empty or holds ';' or
\* whitespace.
C17_HeaderGrammar ==
    Returned =>
        /\ header = buildHeader(returned)
        /\ \A k \in 1..Len(returned) : returned[k].dir \in DirectiveNames
        /\ \A j, k \in 1..Len(returned) :
               returned[j].dir = returned[k].dir => j = k
        /\ \A tok \in AllHeaderTokens : tok # "" /\ ~HasSeparator(tok)

---------------------------------------------------------------------------
(* C18 *)

\* C18: with requireTrustedTypes = true the returned header has
\* require-trusted-types-for with the one token 'script', whatever a preset
\* gave for it; with requireTrustedTypes = false and no preset for it the
\* directive is absent.
C18_TrustedTypes ==
    Returned =>
        /\ opts.requireTrustedTypes =>
               /\ Has(returned, "require-trusted-types-for")
               /\ Get(returned, "require-trusted-types-for") = <<"'script'">>
        /\ /\ ~opts.requireTrustedTypes
           /\ \A k \in 1..Len(opts.presets) :
                  opts.presets[k].dir # "require-trusted-types-for"
           => ~Has(returned, "require-trusted-types-for")

C18_Witness ==
    /\ Returned /\ engine = "core"
    /\ opts.requireTrustedTypes
    /\ opts.presets = <<Preset("require-trusted-types-for", <<"'other'">>)>>
    /\ Get(returned, "require-trusted-types-for") = <<"'script'">>

---------------------------------------------------------------------------
(* C19 *)

---------------------------------------------------------------------------
(* C20 *)

\* the store once each call that parse() left in flight has had its answer,
\* in the order the calls were made
RECURSIVE AnsweredStore(_, _)
AnsweredStore(src, cs) ==
    IF cs = <<>> THEN src
    ELSE LET c == cs[1]
             done == IF c.state = "pending" /\ dnsLookup(c.url.host).ok
                     THEN resolveFinish(c, dnsLookup(c.url.host).addrs)
                     ELSE c
         IN AnsweredStore(
                IF c.state = "pending" /\ done.state = "added"
                THEN addTo(src, done.dir, tokenOf(done)) ELSE src,
                Tail(cs))

\* the header of the run in which the lookups answer in that order between
\* the end of parse() and the assembly
AnsweredHeader ==
    LET scan == runOps(initialSources(opts.presets), <<>>, parseOps(srv.page),
                       opts, url)
    IN buildHeader(assemble(AnsweredStore(scan.src, scan.calls),
                            parseFlags(srv.page), opts))

\* C20: without a nonce, the header returned for a page, a set of DNS
\* answers and a configuration is one and the same string however the
\* lookups are scheduled: the one of the run in which they answer in call
\* order before the assembly.
C20_Idempotence ==
    /\ engine = "core" /\ Returned /\ opts.nonce = ""
    /\ \A i \in CallIds :
           calls[i].url # Invalid /\ calls[i].url.host.kind = "name" =>
               dnsLookup(calls[i].url.host).ok
    => header = AnsweredHeader

---------------------------------------------------------------------------
(* C21 *)

\* the store of a request that starts from a new store and new flags, scans
\* the page now served and has every lookup answered: the most such a
\* request can hold when it returns
FreshStore ==
    LET scan == runOps(initialSources(opts.presets), <<>>, parseOps(srv.page),
                       opts, url)
    IN assemble(AnsweredStore(scan.src, scan.calls), parseFlags(srv.page), opts)

SecondRequest == "again" \in DOMAIN input /\ srv = input.again

\* C21: every directive and token of a returned header is one that a
\* request with its own store and flags could have for the page it fetched,
\* and the store still is what was returned.
C21_FreshStorePerRequest ==
    engine = "core" /\ Returned =>
        /\ \A k \in 1..Len(returned) :
               /\ Has(FreshStore, returned[k].dir)
               /\ Range(returned[k].vals)
                      \subseteq Range(Get(FreshStore, returned[k].dir))
        /\ sources = returned

---------------------------------------------------------------------------
(* C22 *)

\* the CSS texts of the page: style attributes and <style> blocks
CssTexts ==
    {srv.page[i].style : i \in {j \in 1..Len(srv.page) : srv.page[j].style # ""}}
    \cup {srv.page[i].text :
             i \in {j \in 1..Len(srv.page) : srv.page[j].tag = "style"}}

\* the targets extractions that run one after another hand to the resolver
CssTargets ==
    UNION {{cssItems(text)[k].target : k \in 1..Len(cssItems(text))} :
               text \in CssTexts}

\* no extraction and no call is still under way
Quiescent ==
    /\ phase \in {"Assembling", "Complete"}
    /\ \A t \in 1..Len(css.tasks) : css.tasks[t].loop \in {"done", "failed"}
    /\ \A i \in CallIds : calls[i].state # "pending"

\* C22: once every extraction and every call has ended, each url() and
\* @import target of each style attribute and <style> block has been handed
\* to the resolver against style-src, and with allowPrivateOrigins its
\* origin is in style-src of the store.
C22_ExtractionsIndependent ==
    engine = "core" /\ Quiescent =>
        \A target \in CssTargets :
            /\ \E i \in CallIds :
                   calls[i].dir = "style-src" /\ calls[i].raw = target
            /\ opts.allowPrivateOrigins =>
                   Origin(ParseUrl(target, url))
                       \in Range(Get(sources, "style-src"))

---------------------------------------------------------------------------
(* C23 *)

\* the caller asked for a nonce: useNonce: true, or a customNonce
NonceAsked ==
    \/ "useNonce" \in DOMAIN input.opts /\ input.opts.useNonce
    \/ "customNonce" \in DOMAIN input.opts /\ input.opts.customNonce # ""

\* C23: a header of the core engine has 'nonce-<value>' and 'strict-dynamic'
\* in script-src when the caller asked for a nonce; when the caller gave
\* neither useNonce nor customNonce it has no generated nonce token, and
\* 'strict-dynamic' only from a preset.
C23_NonceOffByDefault ==
    engine = "core" /\ Returned =>
        /\ NonceAsked =>
               /\ ("'nonce-" \o opts.nonce \o "'") \in HeaderTokens("script-src")
               /\ "'strict-dynamic'" \in HeaderTokens("script-src")
        /\ ("useNonce" \notin DOMAIN input.opts
            /\ "customNonce" \notin DOMAIN input.opts) =>
               /\ ("'nonce-" \o generateNonce \o "'")
                      \notin HeaderTokens("script-src")
               /\ "'strict-dynamic'" \in HeaderTokens("script-src") =>
                      PresetSupplies("script-src", "'strict-dynamic'")

---------------------------------------------------------------------------
(* C24 *)

ResourceDirectives == {"script-src", "style-src", "img-src", "media-src", "frame-src"}

\* what the core engine allow-lists for the external resources of the page
\* under the same options, once its lookups have answered
CoreAllowList ==
    LET scan == runOps(<<>>, <<>>, externalOps(selectors, srv.page), opts, url)
    IN AnsweredStore(scan.src, scan.calls)

\* C24: for a page of external resources and no presets, the tokens of each
\* resource directive in a header of the browser engine are those the core
\* engine allow-lists for that page under the same options.
C24_BrowserMatchesCore ==
    engine = "browser" /\ Returned /\ opts.presets = <<>> =>
        \A dir \in ResourceDirectives :
            HeaderTokens(dir) = Range(Get(CoreAllowList, dir))

---------------------------------------------------------------------------
(* C25 *)

\* the entry has text after its first colon
HasValuePart(seg) ==
    seg.pieces # <<>> /\ ~(Len(seg.pieces) = 1 /\ emptyPiece(seg.pieces[1]))

\* C25: presets given as text, to the CLI or to the launcher: each entry
\* with a name of VALID_CSP_DIRECTIVES and a value part is in the parsed
\* object with all the comma-separated values of the text after its first
\* colon, trimmed; an entry of such a name without a value part is not in it.
C25_PresetFormat ==
    PresetsVia \in {"cli", "launcher"} =>
        \A k \in 1..Len(PresetsGiven) :
            LET seg == PresetsGiven[k] IN
            seg.name \in VALID_CSP_DIRECTIVES =>
                IF HasValuePart(seg)
                THEN \E e \in 1..Len(opts.presets) :
                         /\ opts.presets[e].dir = seg.name
                         /\ opts.presets[e].list = afterFirstColon(seg.pieces)
                ELSE \A e \in 1..Len(opts.presets) :
                         opts.presets[e].dir # seg.name

---------------------------------------------------------------------------
(* C26 *)

OutputFormats == {"header", "raw", "json", "csp-only"}

\* C26: the outputFormat getOptions() returns is one of header, raw, json,
\* csp-only, and it is header when the value given by --format, or else by
\* CSP_OUTPUT_FORMAT, is none of the four.
C26_OutputFormatDefaults ==
    "outputFormat" \in DOMAIN input =>
        /\ input.outputFormat \in OutputFormats
        /\ LET given == IF input.format # "" THEN input.format ELSE input.env
           IN given \notin OutputFormats => input.outputFormat = "header"

---------------------------------------------------------------------------
(* C27 *)

\* the href of the first base element passes the scheme and SSRF checks
BaseAccepted ==
    /\ truthy(firstBase(srv.page))
    /\ Passes(resolveStart(opts, url, "base-uri", firstBase(srv.page)))

\* C27: a returned header of the core engine has base-uri with at least one
\* token: the origin of the first base[href] when that href is accepted, and
\* 'self' when the page has none or its href is dropped.
C27_BaseUriPresent ==
    engine = "core" /\ Returned /\ ~PresetSupplies("base-uri", "'self'")
    /\ ~SecondRequest =>
        /\ Has(returned, "base-uri")
        /\ IF BaseAccepted
           THEN Origin(ParseUrl(firstBase(srv.page), url))
                    \in HeaderTokens("base-uri")
           ELSE HeaderTokens("base-uri") = {"'self'"}

---------------------------------------------------------------------------
(* C28 *)

\* the addresses the calls met: literal hosts, and the answers to lookups
AddressesMet ==
    {calls[i].url.host : i \in {j \in CallIds : UrlCall(calls[j])
                                   /\ calls[j].url.host.kind \in {"v4", "v6"}}}
    \cup UNION {Range(dnsLookup(calls[i].url.host).addrs) :
                   i \in {j \in CallIds : UrlCall(calls[j])
                              /\ calls[j].url.host.kind = "name"}}

\* C28: isPrivateIp is true of an address exactly when it is in a listed
\* range, and a call whose host is a literal address is decided by it on
\* the spot: dropped in a listed range, added otherwise, never left to a
\* lookup.
C28_PrivateRanges ==
    engine = "core" =>
        /\ \A a \in AddressesMet : isPrivateIp(AddrLex(a)) <=> InListedRange(a)
        /\ \A i \in CallIds :
               (/\ UrlCall(calls[i])
                /\ calls[i].url.host.kind \in {"v4", "v6"}
                /\ schemeAllowed(opts, calls[i].url)
                /\ ~opts.allowPrivateOrigins) =>
                   calls[i].state =
                       IF InListedRange(calls[i].url.host) THEN "privateip"
                       ELSE "added"

---------------------------------------------------------------------------
(* C29 *)

\* no call for the directive added anything
NothingAddedTo(dir) ==
    \A i \in CallIds :
        calls[i].dir = dir => calls[i].state \notin {"verbatim", "added"}

NoPresetFor(dir) == \A k \in 1..Len(opts.presets) : opts.presets[k].dir # dir

\* C29 as it was stated: a resource directive that had candidates, all of
\* them rejected, is not in the returned header.
C29_AbsentWhenAllRejected ==
    engine = "core" /\ Returned =>
        \A dir \in ResourceDirectives :
            (/\ \E i \in CallIds : calls[i].dir = dir
             /\ \A i \in CallIds :
                    calls[i].dir = dir =>
                        calls[i].state \in {"invalid", "scheme", "name",
                                            "privateip", "dnsprivate"})
            => ~Has(returned, dir)

\* C29, amended: in the core engine's store, once parse() has run, a resource
\* directive without a preset has an entry only with a token in it, never
\* an empty one; it has none when no call added to it (for script-src and
\* style-src: until an assembly, which may add keywords); and no entry
\* holds a token twice.
C29_RejectedLeavesStore ==
    engine = "core" /\ phase \in {"Assembling", "Complete"} =>
        /\ \A dir \in ResourceDirectives :
               NoPresetFor(dir) =>
                   /\ Has(sources, dir) => Get(sources, dir) # <<>>
                   /\ Returned /\ Has(returned, dir) => Get(returned, dir) # <<>>
                   /\ (/\ NothingAddedTo(dir)
                       /\ \/ dir \in {"img-src", "media-src", "frame-src"}
                          \/ returned = <<>>) => ~Has(sources, dir)
        /\ \A k \in 1..Len(sources) :
               Cardinality(Range(sources[k].vals)) = Len(sources[k].vals)

C29_Witness ==
    /\ engine = "core" /\ Returned
    /\ \E i \in CallIds : calls[i].dir = "img-src" /\ calls[i].state = "privateip"
    /\ \E i \in CallIds : calls[i].dir = "img-src" /\ calls[i].state = "dnsprivate"
    /\ ~Has(returned, "img-src")
    /\ ~Has(sources, "img-src")

---------------------------------------------------------------------------
(* C30 *)

\* a src or href value that resolveAndAdd would take for a keyword
KeywordLike(attr) ==
    attr # NoAttr /\ (startsWithQuote(trim(attr)) \/ endsWithEqQuote(trim(attr)))

\* the tokens generate() itself puts into a directive
AssemblerSupplies(dir, tok) ==
    tok \in Range(Get(addUnsafe(addCompat(addNonce(<<>>, opts)), flags, opts), dir))

\* C30: in a header the core engine returns for the first page it fetched, a
\* quoted keyword that is the text of a src or href attribute of the page is
\* in the directive of that attribute only when a preset, the inline-script
\* pass or the assembly supplies it.
C30_KeywordsNotFromPage ==
    engine = "core" /\ Returned /\ ~SecondRequest =>
        \A i \in 1..Len(srv.page) :
            \A s \in 1..Len(selectors) :
                (/\ KeywordLike(srv.page[i].url)
                 /\ matches(selectors[s], srv.page[i])
                 /\ trim(srv.page[i].url).text
                        \in Range(Get(returned, selectors[s].dir)))
                => \/ PresetSupplies(selectors[s].dir, trim(srv.page[i].url).text)
                   \/ /\ selectors[s].dir = "script-src"
                      /\ trim(srv.page[i].url).text \in Range(ExpectedTokens)
                   \/ AssemblerSupplies(selectors[s].dir,
                                        trim(srv.page[i].url).text)

=============================================================================
